---- MODULE Spec2Model ----
(***************************************************************************)
(* Model of smolagents/logger.py: the step records, their projection to    *)
(* messages (to_messages), and the AgentLogger trace store.                *)
(*                                                                         *)
(* Python values are modelled as follows.                                  *)
(*   - An optional value is a sequence of length 0 (None) or 1.            *)
(*   - A str is a sequence of string pieces; concatenation and f-strings   *)
(*     are \o, str.strip() removes leading and trailing whitespace pieces. *)
(*   - A list is a sequence, a dict a record.                              *)
(*   - A call returns [raised |-> "", ret |-> value], or                   *)
(*     [raised |-> <exception name>, ret |-> <<>>] when it raises.  An     *)
(*     AgentLogger method also returns the logger it leaves, in self.      *)
(***************************************************************************)
EXTENDS Integers, Sequences, FiniteSets, TLC

\* Bounds of the model.
MaxSteps == 3
MaxRaw == 2
MaxCalls == 2
MaxImages == 1

VARIABLES
  steps,          \* AgentLogger.steps
  chat_messages,  \* AgentLogger.chat_messages
  step_log,       \* the step record a projection is applied to, with its mode
  last,           \* the last call made: its name, arguments and outcome
  sys_appended    \* history: a SystemPromptStep was appended to a non-empty
                  \* step list since the last reset

vars == <<steps, chat_messages, step_log, last, sys_appended>>

None == <<>>

Some(v) == <<v>>

Returned(v) == [raised |-> "", ret |-> v]

Raised(e) == [raised |-> e, ret |-> <<>>]

\* All sequences over S of length at most n.
SeqsUpTo(S, n) == UNION {[1..k -> S] : k \in 0..n}

RECURSIVE Flatten(_)
Flatten(ss) == IF ss = <<>> THEN <<>> ELSE Head(ss) \o Flatten(Tail(ss))

----------------------------------------------------------------------------
\* str helpers

Whitespace == {" ", "\n", "\t"}

RECURSIVE lstrip(_)
lstrip(s) == IF s # <<>> /\ Head(s) \in Whitespace THEN lstrip(Tail(s)) ELSE s

RECURSIVE rstrip(_)
rstrip(s) ==
  IF s # <<>> /\ s[Len(s)] \in Whitespace THEN rstrip(SubSeq(s, 1, Len(s) - 1)) ELSE s

strip(s) == rstrip(lstrip(s))

----------------------------------------------------------------------------
\* MessageRole values, Message and its content

SYSTEM == "system"

USER == "user"

ASSISTANT == "assistant"

TOOL_RESPONSE == "tool-response"

\* content given as a str
StrContent(s) == [form |-> "str", val |-> <<[text |-> s]>>]

\* content given as a list of dicts
ListContent(items) == [form |-> "list", val |-> items]

TextPart(s) == [type |-> "text", text |-> s]

ImagePart(image) == [type |-> "image", image |-> image]

\* Message(role, content).dict(): asdict keeps the two fields
Message(role, content) == [role |-> role, content |-> content]

----------------------------------------------------------------------------
\* ToolCall

make_json_serializable(v) == v

ToolCall_dict(tc) ==
  [id |-> tc.id,
   type |-> "function",
   function |-> [name |-> tc.name, arguments |-> make_json_serializable(tc.arguments)]]

\* str() of one tool-call dict
str_dict(d) ==
  <<"{'id': '", d.id, "', 'type': '", d.type, "', 'function': {'name': '",
    d.function.name, "', 'arguments': '", d.function.arguments, "'}}">>

\* str() of a list of tool-call dicts
str_list(ds) ==
  <<"[">>
  \o Flatten([i \in 1..Len(ds) |-> (IF i > 1 THEN <<", ">> ELSE <<>>) \o str_dict(ds[i])])
  \o <<"]">>

----------------------------------------------------------------------------
\* ActionStep

RetryText ==
  "\nNow let's retry: take care not to repeat previous errors! If you have retried several times, try a completely different approach.\n"

\* str(self.error): the error's message
str_error(e) == <<e.message>>

\* tool_response_message with the else of line 115 lost: the observation is
\* appended whether or not there is an error
tool_response_message_no_else(self) ==
  LET message_content ==
        <<"Error:\n">> \o str_error(self.error[1]) \o <<RetryText>>
      error_message ==
        IF self.error = None THEN <<>>
        ELSE IF self.tool_calls = None
             THEN <<Message(ASSISTANT, ListContent(<<TextPart(message_content)>>))>>
             ELSE <<Message(TOOL_RESPONSE,
                            StrContent(<<"Call id: ", self.tool_calls[1][1].id, "\n">>
                                       \o message_content))>>
      observation_message ==
        IF self.observations # None /\ self.tool_calls # None
        THEN <<Message(TOOL_RESPONSE,
                       StrContent(<<"Call id: ", self.tool_calls[1][1].id,
                                    "\nObservation:\n">>
                                  \o self.observations[1]))>>
        ELSE <<>>
  IN  error_message \o observation_message

\* Lines 101-121: the error message, else the observation message.  Both
\* tool-response f-strings read self.tool_calls[0].
tool_response_message(self) ==
  LET message_content ==
        <<"Error:\n">> \o str_error(self.error[1]) \o <<RetryText>>
  IN  IF self.error # None
      THEN IF self.tool_calls = None
           THEN <<Message(ASSISTANT, ListContent(<<TextPart(message_content)>>))>>
           ELSE <<Message(TOOL_RESPONSE,
                          StrContent(<<"Call id: ", self.tool_calls[1][1].id, "\n">>
                                     \o message_content))>>
      ELSE IF self.observations # None /\ self.tool_calls # None
           THEN <<Message(TOOL_RESPONSE,
                          StrContent(<<"Call id: ", self.tool_calls[1][1].id,
                                       "\nObservation:\n">>
                                     \o self.observations[1]))>>
           ELSE <<>>

\* self.tool_calls[0] is evaluated (in one of the two f-strings) and the list
\* is empty: Python raises IndexError.
first_call_missing(self) ==
  /\ self.tool_calls # None
  /\ self.error # None \/ self.observations # None
  /\ self.tool_calls[1] = <<>>

\* The five guarded appends of ActionStep.to_messages, in source order.
ActionStep_to_messages(self, summary_mode, return_memory) ==
  LET m1 == IF self.agent_memory # None /\ return_memory
            THEN <<Message(SYSTEM, ListContent(self.agent_memory[1]))>>
            ELSE <<>>
      m2 == IF self.llm_output # None /\ ~summary_mode
            THEN <<Message(ASSISTANT, ListContent(<<TextPart(strip(self.llm_output[1]))>>))>>
            ELSE <<>>
      m3 == IF self.tool_calls # None
            THEN <<Message(ASSISTANT,
                           ListContent(<<TextPart(str_list(
                             [i \in 1..Len(self.tool_calls[1]) |->
                                ToolCall_dict(self.tool_calls[1][i])]))>>))>>
            ELSE <<>>
      m5 == IF self.observations_images # None /\ self.observations_images[1] # <<>>
            THEN <<Message(USER,
                           ListContent(<<TextPart(<<"Here are the observed images:">>)>>
                             \o [i \in 1..Len(self.observations_images[1]) |->
                                   ImagePart(self.observations_images[1][i])]))>>
            ELSE <<>>
  IN  IF first_call_missing(self)
      THEN Raised("IndexError")
      ELSE Returned(m1 \o m2 \o m3 \o tool_response_message(self) \o m5)

ActionStep_dict(self) ==
  [agent_memory |-> self.agent_memory,
   tool_calls |-> IF self.tool_calls # None /\ self.tool_calls[1] # <<>>
                  THEN [i \in 1..Len(self.tool_calls[1]) |->
                          ToolCall_dict(self.tool_calls[1][i])]
                  ELSE <<>>,
   start_time |-> self.start_time,
   end_time |-> self.end_time,
   step |-> self.step_number,
   error |-> IF self.error # None THEN Some(self.error[1]) ELSE None,
   duration |-> self.duration,
   llm_output |-> self.llm_output,
   observations |-> self.observations,
   action_output |-> make_json_serializable(self.action_output)]

----------------------------------------------------------------------------
\* PlanningStep, TaskStep, SystemPromptStep

PlanningStep_to_messages(self, summary_mode) ==
  LET facts == <<Message(ASSISTANT, StrContent(<<"[FACTS LIST]:\n">> \o strip(self.facts)))>>
      plan == IF ~summary_mode
              THEN <<Message(ASSISTANT, StrContent(<<"[PLAN]:\n">> \o strip(self.plan)))>>
              ELSE <<>>
  IN  Returned(facts \o plan)

TaskStep_to_messages(self, summary_mode) ==
  LET text == <<TextPart(<<"New task:\n">> \o self.task)>>
      images == IF self.task_images # None /\ self.task_images[1] # <<>>
                THEN [i \in 1..Len(self.task_images[1]) |-> ImagePart(self.task_images[1][i])]
                ELSE <<>>
  IN  Returned(<<Message(USER, ListContent(text \o images))>>)

SystemPromptStep_to_messages(self, summary_mode) ==
  IF ~summary_mode
  THEN Returned(<<Message(SYSTEM, ListContent(<<TextPart(strip(self.system_prompt))>>))>>)
  ELSE Returned(<<>>)

\* step.to_messages(summary_mode, return_memory): dispatch on the step's class
to_messages(self, summary_mode, return_memory) ==
  CASE self.class = "ActionStep" -> ActionStep_to_messages(self, summary_mode, return_memory)
    [] self.class = "PlanningStep" -> PlanningStep_to_messages(self, summary_mode)
    [] self.class = "TaskStep" -> TaskStep_to_messages(self, summary_mode)
    [] self.class = "SystemPromptStep" -> SystemPromptStep_to_messages(self, summary_mode)

\* AgentStepLog.dict (asdict): the dataclass fields of the step
AgentStepLog_dict(self) == [k \in DOMAIN self \ {"class"} |-> self[k]]

\* step.dict(): ActionStep overrides it
step_dict(self) ==
  IF self.class = "ActionStep" THEN ActionStep_dict(self) ELSE AgentStepLog_dict(self)

\* The names getattr finds on a step object: its fields and its two methods
step_attributes(self) == (DOMAIN self \ {"class"}) \cup {"dict", "to_messages"}

----------------------------------------------------------------------------
\* The values the steps are drawn from

ToolCalls == {[name |-> "final_answer", arguments |-> "42", id |-> i] : i \in {"c1", "c2"}}

Memories == {<<>>, <<[role |-> USER, content |-> "hi"]>>}

Opt(S) == {None} \cup {Some(v) : v \in S}

ActionSteps ==
  [class : {"ActionStep"},
   agent_memory : Opt(Memories),
   tool_calls : Opt(SeqsUpTo(ToolCalls, MaxCalls)),
   start_time : {None},
   end_time : {None},
   step_number : {None},
   error : Opt({[message |-> "boom"]}),
   duration : {None},
   llm_output : Opt({<<" ", "thought", "\n">>}),
   observations : Opt({<<"seen">>}),
   observations_images : Opt(SeqsUpTo({"img"}, MaxImages)),
   action_output : {None}]

PlanningSteps ==
  [class : {"PlanningStep"}, plan : {<<"plan", " ">>}, facts : {<<"\n", "facts">>}]

TaskSteps ==
  [class : {"TaskStep"}, task : {<<"task">>}, task_images : Opt(SeqsUpTo({"img"}, MaxImages))]

SystemPromptSteps ==
  [class : {"SystemPromptStep"}, system_prompt : {<<" ", "prompt", " ">>}]

AllSteps == ActionSteps \cup PlanningSteps \cup TaskSteps \cup SystemPromptSteps

\* The steps the store is driven with: one of each class
AnAction ==
  [class |-> "ActionStep",
   agent_memory |-> Some(<<[role |-> USER, content |-> "hi"]>>),
   tool_calls |-> Some(<<[name |-> "final_answer", arguments |-> "42", id |-> "c1"]>>),
   start_time |-> None, end_time |-> None, step_number |-> None,
   error |-> None, duration |-> None,
   llm_output |-> Some(<<" ", "thought", "\n">>),
   observations |-> Some(<<"seen">>),
   observations_images |-> None,
   action_output |-> None]

StoredSteps ==
  {AnAction} \cup PlanningSteps \cup SystemPromptSteps
  \cup {t \in TaskSteps : t.task_images = None}

RawOutputs == {"raw1", "raw2"}

\* position: None (the default) or an int
Positions == {None, Some(0), Some(1), Some(-1)}

IsSystemPrompt(step) == step.class = "SystemPromptStep"

----------------------------------------------------------------------------
\* AgentLogger.  self is [steps, chat_messages]; a method returns
\* [raised, self, ret].

AgentLogger_init == [steps |-> <<>>, chat_messages |-> <<>>]

\* The attributes __init__ sets and the methods of the class
AgentLogger_attributes ==
  {"level", "steps", "chat_messages", "console",
   "reset", "log", "log_step", "log_chat_messages",
   "get_succinct_logs", "get_extended_logs", "replay"}

\* reset that clears the raw outputs too
reset_clears_all(self) ==
  [raised |-> "", self |-> [self EXCEPT !.steps = <<>>, !.chat_messages = <<>>], ret |-> None]

reset(self) ==
  [raised |-> "", self |-> [self EXCEPT !.steps = <<>>], ret |-> None]

\* log_step without the assertion of line 219
log_step_unchecked(self, step, position) ==
  IF position = None
  THEN [raised |-> "", self |-> [self EXCEPT !.steps = Append(self.steps, step)], ret |-> None]
  ELSE [raised |-> "",
        self |-> [self EXCEPT !.steps = <<step>> \o SubSeq(self.steps, 2, Len(self.steps))],
        ret |-> None]

\* log_step that inserts at the head ([step] + self.steps) instead of replacing it
log_step_inserts(self, step, position) ==
  IF position = None
  THEN [raised |-> "", self |-> [self EXCEPT !.steps = Append(self.steps, step)], ret |-> None]
  ELSE IF position[1] # 0
       THEN [raised |-> "AssertionError", self |-> self, ret |-> None]
       ELSE [raised |-> "", self |-> [self EXCEPT !.steps = <<step>> \o self.steps], ret |-> None]

log_step(self, step, position) ==
  IF position = None
  THEN [raised |-> "", self |-> [self EXCEPT !.steps = Append(self.steps, step)], ret |-> None]
  ELSE IF position[1] # 0
       THEN [raised |-> "AssertionError", self |-> self, ret |-> None]
       ELSE [raised |-> "",
             self |-> [self EXCEPT !.steps = <<step>> \o SubSeq(self.steps, 2, Len(self.steps))],
             ret |-> None]

log_chat_messages(self, msg) ==
  [raised |-> "",
   self |-> [self EXCEPT !.chat_messages = Append(self.chat_messages, msg)],
   ret |-> None]

\* The comprehension calls log.items() on each stored step object
get_succinct_logs(self) ==
  IF \E i \in 1..Len(self.steps) : "items" \notin step_attributes(self.steps[i])
  THEN [raised |-> "AttributeError", self |-> self, ret |-> <<>>]
  ELSE [raised |-> "",
        self |-> self,
        ret |-> [i \in 1..Len(self.steps) |->
                   [k \in DOMAIN self.steps[i] \ {"agent_memory"} |-> self.steps[i][k]]]]

\* eval(content): a list is not a str (TypeError); the str contents that
\* to_messages builds ("Call id: ...", "[FACTS LIST]:...", "[PLAN]:...") are
\* not Python expressions (SyntaxError)
py_eval(content) ==
  IF content.form = "list" THEN Raised("TypeError") ELSE Raised("SyntaxError")

upper(role) ==
  CASE role = SYSTEM -> "SYSTEM"
    [] role = USER -> "USER"
    [] role = ASSISTANT -> "ASSISTANT"
    [] role = TOOL_RESPONSE -> "TOOL-RESPONSE"

\* Lines 247-281: the rendering loop over the messages, ix counted from ix0
RECURSIVE render(_, _)
render(memory, ix0) ==
  IF memory = <<>> THEN <<>>
  ELSE LET step == Head(memory)
           role == step.role
           ix == IF role = ASSISTANT THEN ix0 + 1 ELSE ix0
           evaluated == py_eval(step.content)
           content == IF evaluated.raised = "" THEN evaluated.ret ELSE <<step.content>>
       IN  [k \in 1..Len(content) |->
              [role |-> upper(role), step |-> ix, substep |-> k, of |-> Len(content),
               item |-> content[k]]]
           \o render(Tail(memory), ix)

\* replay reads self.logger, which AgentLogger does not have, and calls
\* to_messages without its positional summary_mode
replay(self, with_memory) ==
  IF "logger" \notin AgentLogger_attributes
  THEN [raised |-> "AttributeError", self |-> self, ret |-> <<>>]
  ELSE IF self.steps # <<>>
       THEN [raised |-> "TypeError", self |-> self, ret |-> <<>>]
       ELSE [raised |-> "", self |-> self,
             ret |-> <<[memory |-> <<>>, rendered |-> render(<<>>, 0)]>>]

----------------------------------------------------------------------------
\* The trace store as a state machine

Self == [steps |-> steps, chat_messages |-> chat_messages]

NoArgs == [none |-> TRUE]

Call(op, args, r) == [op |-> op, args |-> args, raised |-> r.raised, ret |-> r.ret]

Init ==
  /\ steps = AgentLogger_init.steps
  /\ chat_messages = AgentLogger_init.chat_messages
  /\ step_log = None
  /\ last = Call("__init__", NoArgs, Returned(None))
  /\ sys_appended = FALSE

Leaves(r) ==
  /\ steps' = r.self.steps
  /\ chat_messages' = r.self.chat_messages

LogStep ==
  \E step \in StoredSteps, position \in Positions :
    LET r == log_step(Self, step, position)
    IN  /\ position = None => Len(steps) < MaxSteps
        /\ Leaves(r)
        /\ last' = Call("log_step", [step |-> step, position |-> position], r)
        /\ sys_appended' =
             (sys_appended \/ (position = None /\ IsSystemPrompt(step) /\ steps # <<>>))
        /\ UNCHANGED step_log

Reset ==
  LET r == reset(Self)
  IN  /\ Leaves(r)
      /\ last' = Call("reset", NoArgs, r)
      /\ sys_appended' = FALSE
      /\ UNCHANGED step_log

LogChatMessages ==
  \E msg \in RawOutputs :
    LET r == log_chat_messages(Self, msg)
    IN  /\ Len(chat_messages) < MaxRaw
        /\ Leaves(r)
        /\ last' = Call("log_chat_messages", [msg |-> msg], r)
        /\ UNCHANGED <<step_log, sys_appended>>

GetSuccinctLogs ==
  LET r == get_succinct_logs(Self)
  IN  /\ Leaves(r)
      /\ last' = Call("get_succinct_logs", NoArgs, r)
      /\ UNCHANGED <<step_log, sys_appended>>

Replay ==
  \E with_memory \in BOOLEAN :
    LET r == replay(Self, with_memory)
    IN  /\ Leaves(r)
        /\ last' = Call("replay", [with_memory |-> with_memory], r)
        /\ UNCHANGED <<step_log, sys_appended>>

Next == LogStep \/ Reset \/ LogChatMessages \/ GetSuccinctLogs \/ Replay

Spec == Init /\ [][Next]_vars

----------------------------------------------------------------------------
\* The projection as a state machine: a step and a mode are drawn, and
\* to_messages is applied to them

InitProj ==
  /\ steps = <<>>
  /\ chat_messages = <<>>
  /\ step_log \in {Some(a) : a \in [step : AllSteps, summary_mode : BOOLEAN,
                                     return_memory : BOOLEAN]}
  /\ last = Call("__init__", NoArgs, Returned(None))
  /\ sys_appended = FALSE

ToMessages ==
  LET a == step_log[1]
  IN  /\ last' = Call("to_messages", NoArgs, to_messages(a.step, a.summary_mode, a.return_memory))
      /\ UNCHANGED <<steps, chat_messages, step_log, sys_appended>>

NextProj == ToMessages

SpecProj == InitProj /\ [][NextProj]_vars

----------------------------------------------------------------------------
\* Properties of the trace store (checked under Spec)

Positioned == last.op = "log_step" /\ last.args.position # None

\* C1: log_step with a position other than 0 fails and leaves the step list
\* unchanged; with position 0 it puts the step at index 0 and leaves every
\* element at index >= 1 as it was, so a non-empty list keeps its length and
\* an empty list becomes a one-element list.
C1_ReplaceAtHeadOnly ==
  [][(last'.op = "log_step" /\ last'.args.position # None) =>
       IF last'.args.position[1] # 0
       THEN last'.raised = "AssertionError" /\ steps' = steps
       ELSE /\ last'.raised = ""
            /\ Len(steps') = (IF steps = <<>> THEN 1 ELSE Len(steps))
            /\ steps'[1] = last'.args.step
            /\ \A i \in 2..Len(steps) : steps'[i] = steps[i]]_vars

\* A replacement at index 0 of a list that has a remainder
C1_Witness ==
  /\ Positioned
  /\ last.args.position = Some(0)
  /\ last.raised = ""
  /\ Len(steps) >= 2
  /\ steps[1] = last.args.step
  /\ steps[2] # steps[1]

\* C2 as stated: a SystemPromptStep in the step list is at index 0, after any
\* sequence of append, replaceSystemPrompt, reset and recordRawOutput calls.
C2_SystemPromptOnlyAtHead ==
  \A i \in 2..Len(steps) : ~IsSystemPrompt(steps[i])

\* C2 amended: as long as no SystemPromptStep was appended to a non-empty step
\* list since the last reset, a SystemPromptStep in the step list is at index 0.
C2_SystemPromptAtHeadUnlessAppended ==
  ~sys_appended => \A i \in 2..Len(steps) : ~IsSystemPrompt(steps[i])

\* The system prompt retro-inserted at the head of a list holding other steps
C2_Witness ==
  /\ ~sys_appended
  /\ Positioned
  /\ last.args.position = Some(0)
  /\ IsSystemPrompt(last.args.step)
  /\ Len(steps) >= 2
  /\ IsSystemPrompt(steps[1])

\* C3: reset leaves the step list empty and the raw-output list as it was;
\* every call leaves the raw-output list as it was, except log_chat_messages,
\* which extends it at its end by its argument.
C3_RawOutputsOnlyGrow ==
  [][/\ last'.op = "reset" => steps' = <<>> /\ chat_messages' = chat_messages
     /\ \/ chat_messages' = chat_messages
        \/ /\ last'.op = "log_chat_messages"
           /\ chat_messages' = Append(chat_messages, last'.args.msg)]_vars

\* A reset with raw outputs recorded
C3_Witness ==
  /\ last.op = "reset"
  /\ steps = <<>>
  /\ Len(chat_messages) = MaxRaw
  /\ chat_messages[1] # chat_messages[2]

\* C7: get_succinct_logs returns one dict-export per stored step, in store
\* order, none of them with an agent_memory key.
C7_SuccinctViewWithoutMemory ==
  last.op = "get_succinct_logs" =>
    /\ last.raised = ""
    /\ Len(last.ret) = Len(steps)
    /\ \A i \in 1..Len(steps) :
         /\ "agent_memory" \notin DOMAIN last.ret[i]
         /\ \A k \in DOMAIN last.ret[i] : last.ret[i][k] = step_dict(steps[i])[k]

\* The messages of the stored steps, concatenated in store order, as replay
\* asks for them (summary_mode false)
ProjectionInStoreOrder(with_memory) ==
  Flatten([i \in 1..Len(steps) |-> to_messages(steps[i], FALSE, with_memory).ret])

\* C8: the concatenation replay builds is the per-step to_messages results in
\* store order.
C8_ReplayConcatenatesInStoreOrder ==
  last.op = "replay" =>
    /\ last.raised = ""
    /\ last.ret[1].memory = ProjectionInStoreOrder(last.args.with_memory)

\* C9: replay runs to completion, and renders a message whose content is not
\* a list of parts as one substep (1/1) holding the raw content.
C9_ReplayNeverRaises ==
  last.op = "replay" =>
    /\ last.raised = ""
    /\ LET rows == last.ret[1].rendered
           memory == last.ret[1].memory
       IN  \A j \in 1..Len(memory) :
             memory[j].content.form = "str" =>
               \E k \in 1..Len(rows) :
                 rows[k].item = memory[j].content /\ rows[k].substep = 1 /\ rows[k].of = 1

----------------------------------------------------------------------------
\* Properties of ActionStep.to_messages (checked under SpecProj)

Projected == last.op = "to_messages" /\ step_log[1].step.class = "ActionStep"

\* The first text of a message: of its str content, or of the first part of
\* its list content
MessageText(m) ==
  IF m.content.val # <<>> /\ "text" \in DOMAIN m.content.val[1]
  THEN m.content.val[1].text
  ELSE <<>>

HasPiece(m, piece) == \E k \in 1..Len(MessageText(m)) : MessageText(m)[k] = piece

IsErrorMessage(m) == HasPiece(m, "Error:\n")

IsObservationMessage(m) == m.role = TOOL_RESPONSE /\ HasPiece(m, "\nObservation:\n")

MessageKind(m) ==
  CASE m.role = SYSTEM -> "memory"
    [] m.role = USER -> "images"
    [] IsErrorMessage(m) -> "error_or_observation"
    [] IsObservationMessage(m) -> "error_or_observation"
    [] m.role = ASSISTANT /\ HasPiece(m, "[") -> "tool_calls"
    [] OTHER -> "llm_output"

\* The kinds of message the guards of C4 select, in the order C4 fixes
ExpectedKinds(self, summary_mode, return_memory) ==
  (IF self.agent_memory # None /\ return_memory THEN <<"memory">> ELSE <<>>)
  \o (IF self.llm_output # None /\ ~summary_mode THEN <<"llm_output">> ELSE <<>>)
  \o (IF self.tool_calls # None THEN <<"tool_calls">> ELSE <<>>)
  \o (IF self.error # None \/ (self.observations # None /\ self.tool_calls # None)
      THEN <<"error_or_observation">> ELSE <<>>)
  \o (IF self.observations_images # None /\ self.observations_images[1] # <<>>
      THEN <<"images">> ELSE <<>>)

KindsOf(messages) == [i \in 1..Len(messages) |-> MessageKind(messages[i])]

\* C4: for every ActionStep and mode, to_messages gives the messages whose
\* guards hold, each exactly when its own guard holds, in the fixed order
\* memory, llm_output, tool_calls, error-or-observation, images: at most 5.
C4_FixedOrderIndependentGuards ==
  Projected =>
    /\ last.raised = ""
    /\ Len(last.ret) <= 5
    /\ KindsOf(last.ret) =
         ExpectedKinds(step_log[1].step, step_log[1].summary_mode, step_log[1].return_memory)

\* What C4 says holds of every call that returns
OrderWhenReturned ==
  Projected /\ last.raised = "" =>
    /\ Len(last.ret) <= 5
    /\ KindsOf(last.ret) =
         ExpectedKinds(step_log[1].step, step_log[1].summary_mode, step_log[1].return_memory)

ErrorMessages == {i \in 1..Len(last.ret) : IsErrorMessage(last.ret[i])}

ObservationMessages == {i \in 1..Len(last.ret) : IsObservationMessage(last.ret[i])}

C6_ErrorRoleByToolCalls ==
  Projected /\ step_log[1].step.error # None =>
    /\ last.raised = ""
    /\ Cardinality(ErrorMessages) = 1
    /\ \A i \in ErrorMessages :
         LET m == last.ret[i]
             tool_calls == step_log[1].step.tool_calls
         IN  IF tool_calls = None
             THEN m.role = ASSISTANT
             ELSE /\ m.role = TOOL_RESPONSE
                  /\ m.content.form = "str"
                  /\ MessageText(m)[1] = "Call id: "
                  /\ MessageText(m)[2] = tool_calls[1][1].id

\* What C6 says holds of every call that returns
ErrorRoleWhenReturned ==
  Projected /\ step_log[1].step.error # None /\ last.raised = "" =>
    /\ Cardinality(ErrorMessages) = 1
    /\ \A i \in ErrorMessages :
         LET m == last.ret[i]
             tool_calls == step_log[1].step.tool_calls
         IN  IF tool_calls = None
             THEN m.role = ASSISTANT
             ELSE /\ m.role = TOOL_RESPONSE
                  /\ m.content.form = "str"
                  /\ MessageText(m)[1] = "Call id: "
                  /\ MessageText(m)[2] = tool_calls[1][1].id

\* C10: to_messages returns a message sequence for every ActionStep and mode,
\* also when tool_calls is an empty list and an error or observations is set.
C10_ToMessagesTotal ==
  Projected => last.raised = ""

====
